---- MODULE Spec2Model ----
(***************************************************************************)
(* Model of the RAG backend (rag-backend/main.py, storage.py, rag.py,      *)
(* bedrock_llm.py): the papers.json status store, the per-paper index      *)
(* directories, the /ingest and /chat handlers, retrieve, format_citations,*)
(* the evidence blocks of generate_answer_nova_micro and the extractive    *)
(* fallback.                                                               *)
(*                                                                         *)
(* Four specifications:                                                    *)
(*   Spec          the server: one /ingest request per paper id and /chat  *)
(*                 requests, interleaved at the file operations (the       *)
(*                 handlers are sync def handlers, which FastAPI runs on a *)
(*                 thread pool)                                            *)
(*   SpecRetrieve  one call of retrieve over arbitrary persisted indexes   *)
(*   SpecChat      /chat requests over arbitrary persisted indexes         *)
(*   SpecStore     non-overlapping upsert_paper calls                      *)
(***************************************************************************)
EXTENDS Naturals, Sequences, FiniteSets

\* ----------------------------------------------------------------- bounds
\* Paper ids ("p_" + 10 hex digits in the code); every /ingest draws a fresh one.
PaperIds == {"p_a", "p_b"}
\* Ids offered to upsert_paper in SpecStore.
StoreIds == {"p_a", "p_b", "p_c"}
\* Distances of a chunk to the query (lower = closer).
Scores == {0, 1}
\* Largest number of chunks in one index of SpecRetrieve and SpecChat.
MaxChunks == 3
\* Largest k given to retrieve in SpecRetrieve.
MaxK == 3

\* ------------------------------------------------------ program constants
ChatK == 6            \* main.py: retrieve(..., k=6)
MinPerPaperK == 2     \* rag.py: per_paper_k = max(2, k)
SnippetLen == 160     \* rag.py: page_content[:160]
EvidenceLen == 1200   \* bedrock_llm.py: chunk[:1200]
BulletLen == 220      \* rag.py: page_content.strip()[:220]

Statuses == {"processing", "indexed", "failed"}

VARIABLES
    papers_json,  \* data/papers.json: [state, data]
    index_dir,    \* data/indexes/<paper_id>: [state, ranked]
    ipc,          \* position of the /ingest request of each paper id
    ipapers,      \* the `papers` local of its running upsert_paper
    iwrote,       \* the status its last completed upsert_paper wrote
    chat,         \* the /chat request
    q             \* a direct call of retrieve or of upsert_paper

vars == <<papers_json, index_dir, ipc, ipapers, iwrote, chat, q>>

\* ---------------------------------------------------------------- helpers
Max(a, b) == IF a >= b THEN a ELSE b
Min(a, b) == IF a <= b THEN a ELSE b
Take(s, n) == SubSeq(s, 1, Min(n, Len(s)))

\* ------------------------------------------------------------- storage.py
Paper(p, s) == [paperId |-> p, status |-> s]

AbsentFile == [state |-> "absent", data |-> <<>>]
EmptyFile == [state |-> "empty", data |-> <<>>]
GarbledFile == [state |-> "garbled", data |-> <<>>]
JsonFile(papers) == [state |-> "json", data |-> papers]

\* load_papers: [] when the file does not exist, the parsed list otherwise;
\* json.loads raises on an empty or garbled file.
load_papers_ok(file) == file.state \in {"absent", "json"}
load_papers(file) == file.data

\* The index upsert_paper looks up: the first record with the paper's id, 0 for None.
FindIdx(papers, p) ==
    IF \E i \in 1..Len(papers) : papers[i].paperId = p
    THEN CHOOSE i \in 1..Len(papers) :
            /\ papers[i].paperId = p
            /\ \A j \in 1..(i - 1) : papers[j].paperId # p
    ELSE 0

\* Mutant: a new record is appended at the end.
UpsertAppends(papers, paper) ==
    IF FindIdx(papers, paper.paperId) = 0
    THEN Append(papers, paper)
    ELSE [papers EXCEPT ![FindIdx(papers, paper.paperId)] = paper]

\* The list upsert_paper saves: insert(0, paper) or papers[idx] = paper.
UpsertList(papers, paper) ==
    IF FindIdx(papers, paper.paperId) = 0
    THEN <<paper>> \o papers
    ELSE [papers EXCEPT ![FindIdx(papers, paper.paperId)] = paper]

\* What the file holds once write_text has written `papers` through a handle
\* opened (and truncated) earlier: the new text on an empty file; when another
\* writer has written since the truncation, the new text overwrites the start
\* of the other text and a longer other text leaves a tail behind it.
WriteOutcomes(file, papers) ==
    IF file.state = "empty"
    THEN {JsonFile(papers)}
    ELSE {JsonFile(papers), GarbledFile}

\* The stored status of a paper, "none" when the store has no readable record.
StatusIn(papers, p) ==
    IF FindIdx(papers, p) = 0 THEN "none" ELSE papers[FindIdx(papers, p)].status
StoredStatus(p) ==
    IF papers_json.state = "json" THEN StatusIn(papers_json.data, p) ELSE "none"

\* ----------------------------------------------------------------- rag.py
NoIndex == [state |-> "none", ranked |-> <<>>]
PartialIndex == [state |-> "partial", ranked |-> <<>>]
SavedIndex(ranked) == [state |-> "saved", ranked |-> ranked]

\* A persisted index, as the ranking similarity_search_with_score gives for the
\* query: the chunks c00000.. of the paper, each once, by non-decreasing
\* distance; the order among equal distances is the index library's.
IsRanking(r) ==
    /\ \A i \in 1..Len(r) : \E j \in 1..Len(r) : r[j].chunkId = i - 1
    /\ \A i, j \in 1..Len(r) : i < j => r[i].score <= r[j].score

RankingsOfLen(n) ==
    {r \in [1..n -> [chunkId : 0..(n - 1), score : Scores]] : IsRanking(r)}

Rankings == UNION {RankingsOfLen(n) : n \in 1..MaxChunks}

\* The text of a chunk: where it comes from and how long it is (chunk_size=1000).
PageContent(p, c) ==
    [src |-> <<p, c>>, len |-> IF c = 0 THEN 100 ELSE IF c = 1 THEN 200 ELSE 1000]

\* text[:n]
Truncate(text, n) == [src |-> text.src, len |-> Min(text.len, n)]

\* The Document ingest_pdf stores for chunk c of paper p: metadata and page_content.
Document(p, c) ==
    [paperId |-> p, chunkId |-> c, pageStart |-> c + 1, pageEnd |-> c + 1,
     page_content |-> PageContent(p, c)]

\* load_vectorstore raises unless both files of the index were saved.
load_vectorstore_ok(dir, pid) == dir[pid].state = "saved"

\* similarity_search_with_score(query, k): the k closest chunks, best first.
similarity_search_with_score(dir, pid, k) ==
    [i \in 1..Min(k, Len(dir[pid].ranked)) |->
        [doc |-> Document(pid, dir[pid].ranked[i].chunkId),
         score |-> dir[pid].ranked[i].score]]

\* Mutant: the per-paper candidate count ignores k.
PerPaperKFixed(k) == MinPerPaperK

\* per_paper_k = max(2, k)
PerPaperK(k) == Max(MinPerPaperK, k)

\* The `scored` list after the loop over paper_ids.
RECURSIVE Scored(_, _, _)
Scored(dir, paper_ids, k) ==
    IF paper_ids = <<>>
    THEN <<>>
    ELSE similarity_search_with_score(dir, Head(paper_ids), PerPaperK(k))
            \o Scored(dir, Tail(paper_ids), k)

\* Mutant: an element is inserted before the elements of equal score.
InsertBeforeEqual(sorted, x) ==
    LET n == Cardinality({i \in 1..Len(sorted) : sorted[i].score < x.score})
    IN  SubSeq(sorted, 1, n) \o <<x>> \o SubSeq(sorted, n + 1, Len(sorted))

\* One insertion of the stable sort: x goes after every element whose score is
\* not greater than its own.
InsertByScore(sorted, x) ==
    LET n == Cardinality({i \in 1..Len(sorted) : sorted[i].score <= x.score})
    IN  SubSeq(sorted, 1, n) \o <<x>> \o SubSeq(sorted, n + 1, Len(sorted))

\* scored.sort(key=lambda x: x[1]): list.sort is stable.
RECURSIVE SortByScore(_)
SortByScore(s) ==
    IF s = <<>>
    THEN <<>>
    ELSE InsertByScore(SortByScore(SubSeq(s, 1, Len(s) - 1)), s[Len(s)])

\* retrieve raises when load_vectorstore raises for one of paper_ids.
retrieve_ok(dir, paper_ids) ==
    \A i \in 1..Len(paper_ids) : load_vectorstore_ok(dir, paper_ids[i])

\* retrieve: the documents of scored[:k] after the sort.
retrieve(dir, paper_ids, k) ==
    LET top == Take(SortByScore(Scored(dir, paper_ids, k)), k)
    IN  [i \in 1..Len(top) |-> top[i].doc]

\* Mutant: the citations come out in reverse order.
FormatCitationsReversed(docs) ==
    [i \in 1..Len(docs) |->
        LET d == docs[Len(docs) + 1 - i]
        IN  [paperId |-> d.paperId, chunkId |-> d.chunkId,
             pageStart |-> d.pageStart, pageEnd |-> d.pageEnd,
             snippet |-> [src |-> d.page_content.src,
                          len |-> Min(d.page_content.len, SnippetLen),
                          cut |-> d.page_content.len > SnippetLen],
             text |-> d.page_content, pdfUrl |-> "None"]]

\* format_citations: one citation per document, in order.
format_citations(docs) ==
    [i \in 1..Len(docs) |->
        LET d == docs[i]
        IN  [paperId |-> d.paperId, chunkId |-> d.chunkId,
             pageStart |-> d.pageStart, pageEnd |-> d.pageEnd,
             snippet |-> [src |-> d.page_content.src,
                          len |-> Min(d.page_content.len, SnippetLen),
                          cut |-> d.page_content.len > SnippetLen],
             text |-> d.page_content, pdfUrl |-> "None"]]

\* main.py: c["pdfUrl"] = f"http://localhost:3001/pdf/{c['paperId']}"
WithPdfUrl(citations) ==
    [i \in 1..Len(citations) |-> [citations[i] EXCEPT !.pdfUrl = citations[i].paperId]]

\* answer_extractively: the fixed string, or one "- Evidence [i] (p. page): text"
\* bullet per document.
answer_extractively(docs) ==
    IF docs = <<>>
    THEN [kind |-> "not_found", bullets |-> <<>>]
    ELSE [kind |-> "extractive",
          bullets |-> [i \in 1..Len(docs) |->
                        [n |-> i, page |-> docs[i].pageStart,
                         text |-> Truncate(docs[i].page_content, BulletLen)]]]

\* --------------------------------------------------------- bedrock_llm.py
\* evidence_blocks: "[i] title . p. page\nchunk" for enumerate(citations, start=1).
EvidenceBlocks(citations) ==
    [i \in 1..Len(citations) |->
        [label |-> i,
         paperTitle |-> citations[i].paperId,
         page |-> <<citations[i].pageStart, citations[i].pageEnd>>,
         chunk |-> Truncate(citations[i].text, EvidenceLen)]]

\* What the Converse call does: it returns text parts, returns content with no
\* text part, raises (client or service error), times out (botocore raises), or
\* returns a response without output.message.content (KeyError).
GenOutcomes == {"text", "no_text", "error", "timeout", "bad_shape"}
GenRaises(gen) == gen \in {"error", "timeout", "bad_shape"}

\* generate_answer_nova_micro's return value when it does not raise:
\* "\n".join(text_parts).strip() or "Not found in the provided papers."
GeneratedAnswer(gen) ==
    IF gen = "text"
    THEN [kind |-> "generated", bullets |-> <<>>]
    ELSE [kind |-> "not_found", bullets |-> <<>>]

\* ------------------------------------------------------------------ state
ChatIdle ==
    [pc |-> "idle", filter |-> "all", papers |-> <<>>, paper_ids |-> <<>>,
     gen |-> "none", result |-> "none", docs |-> <<>>, citations |-> <<>>,
     evidence |-> <<>>, answer |-> [kind |-> "none", bullets |-> <<>>]]

NoCall ==
    [op |-> "none", paper_ids |-> <<>>, k |-> 0, ok |-> TRUE, docs |-> <<>>,
     paper |-> Paper("p_a", "processing"), before |-> <<>>]

\* The lists of distinct paper ids.
IdLists ==
    UNION {{s \in [1..n -> PaperIds] : \A i, j \in 1..n : i # j => s[i] # s[j]} :
            n \in 0..Cardinality(PaperIds)}

\* The chunks of the PDF behind each /ingest of Spec, as its index ranks them.
BuiltRanking(p) ==
    IF p = "p_a"
    THEN <<[chunkId |-> 0, score |-> 1], [chunkId |-> 1, score |-> 1]>>
    ELSE <<[chunkId |-> 1, score |-> 0], [chunkId |-> 0, score |-> 1]>>

\* The server after start-up: no papers.json, no index directory.
Init ==
    /\ papers_json = AbsentFile
    /\ index_dir = [p \in PaperIds |-> NoIndex]
    /\ ipc = [p \in PaperIds |-> "idle"]
    /\ ipapers = [p \in PaperIds |-> <<>>]
    /\ iwrote = [p \in PaperIds |-> "none"]
    /\ chat = ChatIdle
    /\ q = NoCall

\* The order of the records when p_a was ingested before p_b.
StoreOrder == <<"p_b", "p_a">>

\* The server after each paper was ingested, one request at a time: a paper
\* whose ingestion succeeded is indexed and has its index, the other is failed.
InitQuery ==
    /\ index_dir \in [PaperIds -> {NoIndex} \cup {SavedIndex(r) : r \in Rankings}]
    /\ papers_json =
        JsonFile([i \in 1..Len(StoreOrder) |->
            Paper(StoreOrder[i],
                  IF index_dir[StoreOrder[i]].state = "saved" THEN "indexed" ELSE "failed")])
    /\ ipc = [p \in PaperIds |->
                IF index_dir[p].state = "saved" THEN "returned" ELSE "raised"]
    /\ ipapers = [p \in PaperIds |-> <<>>]
    /\ iwrote = [p \in PaperIds |->
                IF index_dir[p].state = "saved" THEN "indexed" ELSE "failed"]
    /\ chat = ChatIdle
    /\ q = NoCall

\* ---------------------------------------------------------------- /ingest
\* The status each upsert_paper of ingest writes.
UpsertStatus(pc) ==
    IF pc \in {"idle", "p_open", "p_write"} THEN "processing"
    ELSE IF pc \in {"i_load", "i_open", "i_write"} THEN "indexed"
    ELSE "failed"

\* upsert_paper, papers = load_papers(): the first upsert is outside the try, so
\* its exception ends the request; an exception of the second one (inside the
\* try) runs the except clause; an exception of the third one ends the request.
UpsertLoad(p) ==
    /\ ipc[p] \in {"idle", "i_load", "f_load"}
    /\ IF load_papers_ok(papers_json)
       THEN /\ ipapers' = [ipapers EXCEPT ![p] = load_papers(papers_json)]
            /\ ipc' = [ipc EXCEPT ![p] =
                        IF ipc[p] = "idle" THEN "p_open"
                        ELSE IF ipc[p] = "i_load" THEN "i_open" ELSE "f_open"]
       ELSE /\ ipapers' = ipapers
            /\ ipc' = [ipc EXCEPT ![p] = IF ipc[p] = "i_load" THEN "f_load" ELSE "raised"]
    /\ UNCHANGED <<papers_json, index_dir, iwrote, chat, q>>

\* save_papers, write_text opens papers.json for writing: the file is truncated.
UpsertOpen(p) ==
    /\ ipc[p] \in {"p_open", "i_open", "f_open"}
    /\ papers_json' = EmptyFile
    /\ ipc' = [ipc EXCEPT ![p] =
                IF ipc[p] = "p_open" THEN "p_write"
                ELSE IF ipc[p] = "i_open" THEN "i_write" ELSE "f_write"]
    /\ UNCHANGED <<index_dir, ipapers, iwrote, chat, q>>

\* save_papers, write_text writes the mutated list and closes the file; then
\* ingest goes on: to ingest_pdf, to its return, or to the re-raise.
UpsertWrite(p) ==
    /\ ipc[p] \in {"p_write", "i_write", "f_write"}
    /\ \E f \in WriteOutcomes(papers_json,
                    UpsertList(ipapers[p], Paper(p, UpsertStatus(ipc[p])))) :
            papers_json' = f
    /\ iwrote' = [iwrote EXCEPT ![p] = UpsertStatus(ipc[p])]
    /\ ipc' = [ipc EXCEPT ![p] =
                IF ipc[p] = "p_write" THEN "pdf"
                ELSE IF ipc[p] = "i_write" THEN "returned" ELSE "raised"]
    /\ UNCHANGED <<index_dir, ipapers, chat, q>>

\* Mutant: ingest_pdf returns without saving the index.
IngestPdfBuildNoSave(p) ==
    /\ ipc[p] = "pdf"
    /\ ipc' = [ipc EXCEPT ![p] = "i_load"]
    /\ UNCHANGED <<papers_json, index_dir, ipapers, iwrote, chat, q>>

\* ingest_pdf up to FAISS.from_documents: loading, splitting or embedding may
\* raise, which runs the except clause of ingest.
IngestPdfBuild(p) ==
    /\ ipc[p] = "pdf"
    /\ \/ ipc' = [ipc EXCEPT ![p] = "save_faiss"]
       \/ ipc' = [ipc EXCEPT ![p] = "f_load"]
    /\ UNCHANGED <<papers_json, index_dir, ipapers, iwrote, chat, q>>

\* vs.save_local writes index.faiss first ...
IngestPdfSaveFaiss(p) ==
    /\ ipc[p] = "save_faiss"
    /\ index_dir' = [index_dir EXCEPT ![p] = PartialIndex]
    /\ ipc' = [ipc EXCEPT ![p] = "save_pkl"]
    /\ UNCHANGED <<papers_json, ipapers, iwrote, chat, q>>

\* ... and index.pkl second; ingest_pdf returns the number of chunks.
IngestPdfSavePkl(p) ==
    /\ ipc[p] = "save_pkl"
    /\ index_dir' = [index_dir EXCEPT ![p] = SavedIndex(BuiltRanking(p))]
    /\ ipc' = [ipc EXCEPT ![p] = "i_load"]
    /\ UNCHANGED <<papers_json, ipapers, iwrote, chat, q>>

\* ------------------------------------------------------------------ /chat
Filters == {"all"} \cup PaperIds

\* [p["paperId"] for p in papers if p.get("status") == "indexed"]
RECURSIVE IndexedIds(_)
IndexedIds(papers) ==
    IF papers = <<>>
    THEN <<>>
    ELSE (IF Head(papers).status = "indexed" THEN <<Head(papers).paperId>> ELSE <<>>)
            \o IndexedIds(Tail(papers))

\* paper_ids of chat: the filter itself, or the ids of the indexed records.
ChatPaperIds(papers, filter) ==
    IF filter # "all" THEN <<filter>> ELSE IndexedIds(papers)

\* chat, papers = load_papers() and the choice of paper_ids; an exception of
\* load_papers ends the request.
ChatLoad(filter) ==
    /\ chat.pc \in {"idle", "done"}
    /\ IF load_papers_ok(papers_json)
       THEN chat' = [ChatIdle EXCEPT
                        !.pc = "retrieve", !.filter = filter,
                        !.papers = load_papers(papers_json),
                        !.paper_ids = ChatPaperIds(load_papers(papers_json), filter)]
       ELSE chat' = [ChatIdle EXCEPT !.pc = "done", !.filter = filter, !.result = "raised"]
    /\ UNCHANGED <<papers_json, index_dir, ipc, ipapers, iwrote, q>>

\* Mutant: the exception of the generation call is not caught.
ChatAnswerNoFallback(gen) ==
    /\ chat.pc = "retrieve"
    /\ retrieve_ok(index_dir, chat.paper_ids)
    /\ LET docs == retrieve(index_dir, chat.paper_ids, ChatK)
           citations == WithPdfUrl(format_citations(docs))
       IN  chat' = [chat EXCEPT
                !.pc = "done", !.gen = gen, !.docs = docs,
                !.citations = IF GenRaises(gen) THEN <<>> ELSE citations,
                !.evidence = EvidenceBlocks(citations),
                !.result = IF GenRaises(gen) THEN "raised" ELSE "ok",
                !.answer = IF GenRaises(gen) THEN ChatIdle.answer ELSE GeneratedAnswer(gen)]
    /\ UNCHANGED <<papers_json, index_dir, ipc, ipapers, iwrote, q>>

\* chat from retrieve to the return: an exception of retrieve ends the request;
\* an exception of generate_answer_nova_micro is caught and answered by
\* answer_extractively.
ChatAnswer(gen) ==
    /\ chat.pc = "retrieve"
    /\ IF retrieve_ok(index_dir, chat.paper_ids)
       THEN LET docs == retrieve(index_dir, chat.paper_ids, ChatK)
                citations == WithPdfUrl(format_citations(docs))
            IN  chat' = [chat EXCEPT
                    !.pc = "done", !.gen = gen, !.docs = docs,
                    !.citations = citations,
                    !.evidence = EvidenceBlocks(citations),
                    !.result = "ok",
                    !.answer = IF GenRaises(gen)
                               THEN answer_extractively(docs)
                               ELSE GeneratedAnswer(gen)]
       ELSE chat' = [chat EXCEPT !.pc = "done", !.result = "raised"]
    /\ UNCHANGED <<papers_json, index_dir, ipc, ipapers, iwrote, q>>

\* --------------------------------------------------------- direct calls
\* retrieve(query, paper_ids, k), called on its own.
RetrieveCall(paper_ids, k) ==
    /\ q.op = "none"
    /\ q' = [NoCall EXCEPT
                !.op = "retrieve", !.paper_ids = paper_ids, !.k = k,
                !.ok = retrieve_ok(index_dir, paper_ids),
                !.docs = IF retrieve_ok(index_dir, paper_ids)
                         THEN retrieve(index_dir, paper_ids, k)
                         ELSE <<>>]
    /\ UNCHANGED <<papers_json, index_dir, ipc, ipapers, iwrote, chat>>

\* upsert_paper(paper), from load_papers to save_papers with no other call of it
\* in between.
UpsertPaper(paper) ==
    /\ load_papers_ok(papers_json)
    /\ papers_json' = JsonFile(UpsertList(load_papers(papers_json), paper))
    /\ q' = [NoCall EXCEPT !.op = "upsert", !.paper = paper,
                           !.before = load_papers(papers_json)]
    /\ UNCHANGED <<index_dir, ipc, ipapers, iwrote, chat>>

\* --------------------------------------------------------- specifications
Next ==
    \/ \E p \in PaperIds : UpsertLoad(p)
    \/ \E p \in PaperIds : UpsertOpen(p)
    \/ \E p \in PaperIds : UpsertWrite(p)
    \/ \E p \in PaperIds : IngestPdfBuild(p)
    \/ \E p \in PaperIds : IngestPdfSaveFaiss(p)
    \/ \E p \in PaperIds : IngestPdfSavePkl(p)
    \/ \E filter \in Filters : ChatLoad(filter)
    \/ \E gen \in GenOutcomes : ChatAnswer(gen)

Spec == Init /\ [][Next]_vars

NextRetrieve == \E ids \in IdLists, k \in 1..MaxK : RetrieveCall(ids, k)

SpecRetrieve == InitQuery /\ [][NextRetrieve]_vars

NextChat ==
    \/ \E filter \in Filters : ChatLoad(filter)
    \/ \E gen \in GenOutcomes : ChatAnswer(gen)

SpecChat == InitQuery /\ [][NextChat]_vars

NextStore == \E paper \in [paperId : StoreIds, status : Statuses] : UpsertPaper(paper)

SpecStore == Init /\ [][NextStore]_vars

\* ----------------------------------------------------------------- claims
AllIngestsEnded == \A p \in PaperIds : ipc[p] \in {"returned", "raised"}

RecordsOf(file, p) ==
    IF file.state = "json"
    THEN {i \in 1..Len(file.data) : file.data[i].paperId = p}
    ELSE {}

ChatRetrieved(p) ==
    /\ chat.pc = "done"
    /\ chat.result = "ok"
    /\ \E i \in 1..Len(chat.docs) : chat.docs[i].paperId = p

\* C1: a paper whose stored status (as the chat request read it) is failed
\* contributes no chunk to the retrieval result of that request, with either
\* kind of filter and whatever is on disk.
C1_FailedNeverRetrieved ==
    \A p \in PaperIds : ChatRetrieved(p) => StatusIn(chat.papers, p) # "failed"

\* The ids of paper_ids whose index loads, in order.
RECURSIVE LoadableIds(_, _)
LoadableIds(dir, paper_ids) ==
    IF paper_ids = <<>>
    THEN <<>>
    ELSE (IF load_vectorstore_ok(dir, Head(paper_ids)) THEN <<Head(paper_ids)>> ELSE <<>>)
            \o LoadableIds(dir, Tail(paper_ids))

\* C2: retrieve over a list with an unloadable index does not fail and returns
\* the merged top-k of the papers whose index loads.
C2_UnloadableSkipped ==
    q.op = "retrieve" =>
        /\ q.ok
        /\ q.docs = retrieve(index_dir, LoadableIds(index_dir, q.paper_ids), q.k)

\* C3: an ingest request that has returned leaves its paper stored as indexed,
\* one that has raised leaves it stored as failed; never processing, never absent.
C3_IngestEndsIndexedOrFailed ==
    \A p \in PaperIds :
        /\ ipc[p] = "returned" => StoredStatus(p) = "indexed"
        /\ ipc[p] = "raised" => StoredStatus(p) = "failed"

\* C4: once all concurrent ingests have ended, the store holds exactly one
\* record for every paper an ingest wrote, with the last status that ingest wrote.
C4_NoLostUpdate ==
    AllIngestsEnded =>
        \A p \in PaperIds :
            iwrote[p] # "none" =>
                /\ Cardinality(RecordsOf(papers_json, p)) = 1
                /\ StoredStatus(p) = iwrote[p]

\* The chunks of the indexes of paper_ids, as <<paper id, chunk id>>.
ChunksOf(dir, paper_ids) ==
    UNION {{<<paper_ids[i], dir[paper_ids[i]].ranked[j].chunkId>> :
                j \in 1..Len(dir[paper_ids[i]].ranked)} :
            i \in 1..Len(paper_ids)}

\* The local rank of a chunk in its index, and its distance to the query.
LocalRank(dir, p, c) == CHOOSE j \in 1..Len(dir[p].ranked) : dir[p].ranked[j].chunkId = c
ScoreOf(dir, p, c) == dir[p].ranked[LocalRank(dir, p, c)].score
PaperPos(paper_ids, p) == CHOOSE i \in 1..Len(paper_ids) : paper_ids[i] = p

DocKey(d) == <<d.paperId, d.chunkId>>
DocScore(dir, d) == ScoreOf(dir, d.paperId, d.chunkId)

\* C5: over indexes that all load and k >= 1, retrieve returns min(k, number of
\* chunks of the indexes) distinct chunks of those indexes, by non-decreasing
\* distance, none of them farther than a chunk left out; an empty list of ids
\* gives the empty list without error.
C5_RetrieveTopK ==
    /\ (q.op = "retrieve" /\ q.paper_ids = <<>>) => (q.ok /\ q.docs = <<>>)
    /\ (q.op = "retrieve" /\ q.ok) =>
        LET all == ChunksOf(index_dir, q.paper_ids)
            got == {DocKey(q.docs[i]) : i \in 1..Len(q.docs)}
        IN  /\ Len(q.docs) = Min(q.k, Cardinality(all))
            /\ Cardinality(got) = Len(q.docs)
            /\ got \subseteq all
            /\ \A i, j \in 1..Len(q.docs) :
                i < j => DocScore(index_dir, q.docs[i]) <= DocScore(index_dir, q.docs[j])
            /\ \A x \in got, y \in all \ got :
                ScoreOf(index_dir, x[1], x[2]) <= ScoreOf(index_dir, y[1], y[2])

\* C5 witness: two papers, more chunks than k, one index longer than the
\* per-paper candidate count, and chunks of both papers in the result.
C5_Witness ==
    /\ q.op = "retrieve"
    /\ q.ok
    /\ Len(q.paper_ids) = 2
    /\ Len(index_dir[q.paper_ids[1]].ranked) > PerPaperK(q.k)
    /\ Len(q.docs) = q.k
    /\ \E i, j \in 1..Len(q.docs) : q.docs[i].paperId # q.docs[j].paperId

\* A chunk comes before another in the input order of the merge: its paper is
\* earlier in paper_ids, or it is the same paper and its local rank is better.
InputBefore(dir, paper_ids, d, e) ==
    \/ PaperPos(paper_ids, d.paperId) < PaperPos(paper_ids, e.paperId)
    \/ /\ d.paperId = e.paperId
       /\ LocalRank(dir, d.paperId, d.chunkId) < LocalRank(dir, e.paperId, e.chunkId)

\* C8: two chunks of the result at equal distance are in their input order.
C8_TiesKeepInputOrder ==
    (q.op = "retrieve" /\ q.ok) =>
        \A i, j \in 1..Len(q.docs) :
            (i < j /\ DocScore(index_dir, q.docs[i]) = DocScore(index_dir, q.docs[j]))
                => InputBefore(index_dir, q.paper_ids, q.docs[i], q.docs[j])

\* C8 witness: a result with a tie between two papers, the later paper of
\* paper_ids having the smaller id, and a tie inside one paper whose better
\* ranked chunk has the larger chunk id.
C8_Witness ==
    /\ q.op = "retrieve"
    /\ q.ok
    /\ q.paper_ids = <<"p_b", "p_a">>
    /\ \E i, j \in 1..Len(q.docs) :
        /\ i < j
        /\ q.docs[i].paperId = "p_b"
        /\ q.docs[j].paperId = "p_a"
        /\ DocScore(index_dir, q.docs[i]) = DocScore(index_dir, q.docs[j])
    /\ \E i, j \in 1..Len(q.docs) :
        /\ i < j
        /\ q.docs[i].paperId = q.docs[j].paperId
        /\ q.docs[i].chunkId > q.docs[j].chunkId
        /\ DocScore(index_dir, q.docs[i]) = DocScore(index_dir, q.docs[j])

\* C6: when the generation call of a chat request raises (error, timeout,
\* response of the wrong shape), the request returns; its answer is the fixed
\* "not found" string when nothing was retrieved and otherwise has one bullet
\* per retrieved chunk, numbered and taken in retrieval order; the citations
\* are the ones built before the call.
C6_FallbackOnGenerationFailure ==
    (chat.pc = "done" /\ GenRaises(chat.gen)) =>
        /\ chat.result = "ok"
        /\ chat.docs = <<>> => chat.answer = [kind |-> "not_found", bullets |-> <<>>]
        /\ chat.docs # <<>> =>
            /\ chat.answer.kind = "extractive"
            /\ Len(chat.answer.bullets) = Len(chat.docs)
            /\ \A i \in 1..Len(chat.docs) :
                /\ chat.answer.bullets[i].n = i
                /\ chat.answer.bullets[i].text.src = chat.docs[i].page_content.src
                /\ chat.answer.bullets[i].text.len <= BulletLen
        /\ Len(chat.citations) = Len(chat.docs)
        /\ \A i \in 1..Len(chat.docs) :
            /\ chat.citations[i].text = chat.docs[i].page_content
            /\ chat.citations[i].pdfUrl = chat.docs[i].paperId

\* C6 witness: a generation call that timed out after chunks of two papers were
\* retrieved, answered by the fallback.
C6_Witness ==
    /\ chat.pc = "done"
    /\ chat.gen = "timeout"
    /\ chat.answer.kind = "extractive"
    /\ Len(chat.docs) >= 3
    /\ \E i, j \in 1..Len(chat.docs) : chat.docs[i].paperId # chat.docs[j].paperId

\* C7: the i-th citation is built from the i-th retrieved chunk and the evidence
\* block labelled [i] from the i-th citation, for every i; the lists have the
\* same length.
C7_PositionsPreserved ==
    (chat.pc = "done" /\ chat.result = "ok") =>
        /\ Len(chat.citations) = Len(chat.docs)
        /\ Len(chat.evidence) = Len(chat.citations)
        /\ \A i \in 1..Len(chat.docs) :
            /\ chat.citations[i].paperId = chat.docs[i].paperId
            /\ chat.citations[i].chunkId = chat.docs[i].chunkId
            /\ chat.citations[i].text = chat.docs[i].page_content
            /\ chat.citations[i].snippet.src = chat.docs[i].page_content.src
            /\ chat.evidence[i].label = i
            /\ chat.evidence[i].chunk.src = chat.citations[i].text.src
            /\ chat.evidence[i].page = <<chat.citations[i].pageStart, chat.citations[i].pageEnd>>

\* C7 witness: a returned chat request with chunks of two papers, the first
\* chunk not being chunk 0 of its paper.
C7_Witness ==
    /\ chat.pc = "done"
    /\ chat.result = "ok"
    /\ chat.filter = "all"
    /\ Len(chat.docs) >= 4
    /\ chat.docs[1].chunkId # 0
    /\ chat.docs[1].paperId # chat.docs[Len(chat.docs)].paperId

\* C9: a paper stored as indexed has both files of its index on disk, and the
\* ids a chat request with filter "all" is about to retrieve all load.
C9_IndexedHasIndex ==
    /\ \A p \in PaperIds : StoredStatus(p) = "indexed" => index_dir[p].state = "saved"
    /\ (chat.pc = "retrieve" /\ chat.filter = "all") =>
            retrieve_ok(index_dir, chat.paper_ids)

\* C9 witness: a chat request with filter "all" about to retrieve an indexed
\* paper while the other ingest is writing its index.
C9_Witness ==
    /\ chat.pc = "retrieve"
    /\ chat.filter = "all"
    /\ chat.paper_ids # <<>>
    /\ \E p \in PaperIds : index_dir[p].state = "partial"

NoDuplicateIds(papers) ==
    \A i, j \in 1..Len(papers) : papers[i].paperId = papers[j].paperId => i = j

\* C10: after non-overlapping upsert_paper calls the store has at most one
\* record per paperId; the last call replaced the record of its id in place,
\* or put the record of a new id at the front; the other records are as before.
C10_UpsertFrame ==
    q.op = "upsert" =>
        LET old == q.before
            new == papers_json.data
            i == FindIdx(old, q.paper.paperId)
        IN  /\ papers_json.state = "json"
            /\ NoDuplicateIds(new)
            /\ i # 0 =>
                /\ Len(new) = Len(old)
                /\ new[i] = q.paper
                /\ \A j \in 1..Len(old) : j # i => new[j] = old[j]
            /\ i = 0 =>
                /\ Len(new) = Len(old) + 1
                /\ new[1] = q.paper
                /\ \A j \in 1..Len(old) : new[j + 1] = old[j]

\* C10 witness: the record in the middle of three was replaced by one with
\* another status.
C10_Witness ==
    /\ q.op = "upsert"
    /\ Len(q.before) = 3
    /\ FindIdx(q.before, q.paper.paperId) = 2
    /\ q.before[2] # q.paper
    /\ papers_json.data[2] = q.paper

====
